---- MODULE Spec2Model ----
(***************************************************************************)
(* Traffic simulation game: the simulation and routing engine.             *)
(*                                                                         *)
(* State machine of GameState, GridManager / InputManager, PathFinder,     *)
(* CarManager and Car, driven by the Phaser frame loop: in every frame the *)
(* scene clock first advances its time events and tweens and runs the      *)
(* callbacks that are due, then GameScene.update runs.  Keyboard and       *)
(* pointer input arrives between frames.                                   *)
(*                                                                         *)
(* Times are in milliseconds.  A cell is the pair <<row, col>> (the code's *)
(* gridKey string "row,col").  A position is a record with the cell and    *)
(* the isEntrance flag of LevelManager's processed coordinates.            *)
(***************************************************************************)
EXTENDS Integers, Sequences, FiniteSets, TLC

\* ------------------------------------------------------------------ bounds

\* Vehicle ids that can be in use at once (generateId draws a random string).
MaxIds == 3
\* Direction annotations on the whole board (Road.addDirection appends
\* without limit).
MaxArrows == 1
\* Level loads in flight at once (GameScene.loadLevel is asynchronous).
MaxLoads == 1
\* Simulation runs the player starts on one loaded level.
MaxRuns == 2
\* Frames that pass while a level load is in flight.
MaxPendingFrames == 1

\* --------------------------------------------------------------- constants

roadCost == 1000
maxWaitTime == 10000
carSpeed == 2000
carSpawnInterval == 3000
maxCarsPerType == 5
\* GameConfig.successThreshold = 0.8, as a percentage
successThreshold == 80
\* Car.updateSpawning: spawn delay
spawnDelay == 500
\* Car.updateWaiting: interval after which a new path is flagged
requeryInterval == 2000
\* CarManager.handleCarReachedExit / handleCarFailed: removal delays
reachedRemovalDelay == 1000
failedRemovalDelay == 3000
\* CarManager.update: period of cleanupTerminalCars
cleanupPeriod == 5000
\* LevelLimits.minGridSize: the smallest grid a level may have
minGridSize == 3
\* Terminated vehicles per car type the evaluators wait for:
\* CarManager.checkEndConditions and GameState.checkGameEndConditions
cmSamplePerType == 3
gsSamplePerType == 2
\* CarManager.checkEndConditions: the sample size without level data
cmSampleNoLevel == 10

\* Frame deltas the host loop delivers: ordinary frames and one long frame
\* (a stalled tab); Car.update takes whatever delta it is given.
Deltas == {2500, 12500}
\* Math.random() * 1000 in scheduleCarSpawn, sampled at its lower end: with the
\* frame lengths of Deltas every jitter in [0, 1000) puts the spawn on the same
\* frame, so one sample stands for them all
Jitters == {0}
\* Drags with the ARROW tool, as <<start cell, end cell>>, sampled: an arrow
\* pointing left on the middle cell of the editable row, and a drag between
\* cells that are not adjacent.
ArrowDrags == { << <<1, 1>>, <<1, 0>> >>, << <<1, 0>>, <<1, 2>> >> }

\* Cells the player clicks, sampled: the editable row and one uneditable
\* cell.
ClickCells == {<<1, 0>>, <<1, 1>>, <<1, 2>>, <<0, 0>>}

Ids == 1..MaxIds

\* ------------------------------------------------------------------ levels

Pos(r, c, e) == [row |-> r, col |-> c, isEntrance |-> e]

CellOf(p) == <<p.row, p.col>>

\* Processed level data, as LevelManager.convertCoordinates and
\* processUneditableAreas produce it.  Both levels are 3 x 3 with rows 0 and
\* 2 uneditable, so that roads go on row 1 only, and have one car type.
\*   LevelA: entrance beyond the left edge of row 1, exit beyond the right
\*           edge of row 1.
\*   LevelB: two entrances inside the grid, (1,0) and (1,1), and the exit
\*           inside the grid at (1,2).
BlockedRows == {<<r, c>> : r \in {0, 2}, c \in 0..(minGridSize - 1)}

LevelA ==
    [name |-> "A", budget |-> 3 * roadCost,
     rows |-> minGridSize, columns |-> minGridSize,
     uneditableCells |-> BlockedRows,
     cars |-> << [color |-> "red",
                  entrances |-> << Pos(1, -1, TRUE) >>,
                  exit |-> Pos(1, minGridSize, TRUE)] >>]

LevelB ==
    [name |-> "B", budget |-> 3 * roadCost,
     rows |-> minGridSize, columns |-> minGridSize,
     uneditableCells |-> BlockedRows,
     cars |-> << [color |-> "blue",
                  entrances |-> << Pos(1, 0, FALSE), Pos(1, 1, FALSE) >>,
                  exit |-> Pos(1, 2, FALSE)] >>]

Levels == {LevelA, LevelB}

\* A level with its entrance inside the grid, at (1,0), and its exit beyond
\* the right edge of row 1.
LevelM ==
    [name |-> "M", budget |-> 3 * roadCost,
     rows |-> minGridSize, columns |-> minGridSize,
     uneditableCells |-> BlockedRows,
     cars |-> << [color |-> "red",
                  entrances |-> << Pos(1, 0, FALSE) >>,
                  exit |-> Pos(1, minGridSize, TRUE)] >>]

\* A level with three car types, for the end-condition evaluators: their
\* sample sizes grow with the number of car types.
LevelThreeTypes ==
    [name |-> "C", budget |-> 3 * roadCost,
     rows |-> minGridSize, columns |-> minGridSize,
     uneditableCells |-> BlockedRows,
     cars |-> << [color |-> "blue",
                  entrances |-> << Pos(1, 0, FALSE) >>,
                  exit |-> Pos(1, 2, FALSE)],
                 [color |-> "green",
                  entrances |-> << Pos(1, 1, FALSE) >>,
                  exit |-> Pos(1, 2, FALSE)],
                 [color |-> "red",
                  entrances |-> << Pos(1, 0, FALSE), Pos(1, 1, FALSE) >>,
                  exit |-> Pos(1, 2, FALSE)] >>]

EvalLevels == Levels \cup {LevelThreeTypes}

\* A level with two car types of the same colour, the first entering at
\* (1,0) and the second at (1,1).
LevelSameColour ==
    [name |-> "S", budget |-> 3 * roadCost,
     rows |-> minGridSize, columns |-> minGridSize,
     uneditableCells |-> BlockedRows,
     cars |-> << [color |-> "red",
                  entrances |-> << Pos(1, 0, FALSE) >>,
                  exit |-> Pos(1, 2, FALSE)],
                 [color |-> "red",
                  entrances |-> << Pos(1, 1, FALSE) >>,
                  exit |-> Pos(1, 2, FALSE)] >>]

\* A level with one uneditable cell, in a corner, and the budget for a road
\* on every other cell: the roads can form detours.
LevelOpen ==
    [name |-> "O", budget |-> (minGridSize * minGridSize - 1) * roadCost,
     rows |-> minGridSize, columns |-> minGridSize,
     uneditableCells |-> {<<0, 0>>},
     cars |-> << [color |-> "red",
                  entrances |-> << Pos(1, -1, TRUE) >>,
                  exit |-> Pos(1, minGridSize, TRUE)] >>]

NoLevel == [name |-> "none"]

\* ----------------------------------------------------------------- helpers

Abs(x) == IF x < 0 THEN -x ELSE x

Max(a, b) == IF a >= b THEN a ELSE b

Min(a, b) == IF a <= b THEN a ELSE b

gridKey(row, col) == <<row, col>>

isValidGridPosition(row, col, maxRows, maxCols) ==
    row >= 0 /\ row < maxRows /\ col >= 0 /\ col < maxCols

NoRoads == [k \in {} |-> <<>>]

\* Map.set / Map.delete on a map kept as a function over its keys
MapSet(m, k, v) == [x \in DOMAIN m \cup {k} |-> IF x = k THEN v ELSE m[x]]

MapDelete(m, k) == [x \in DOMAIN m \ {k} |-> m[x]]

MapGetOr(m, k, d) == IF k \in DOMAIN m THEN m[k] ELSE d

SeqRemove(s, x) == SelectSeq(s, LAMBDA y : y # x)

SeqSet(s) == {s[i] : i \in DOMAIN s}

\* -------------------------------------------------------------- PathFinder

NoGrid == [hasGrid |-> FALSE, walkable |-> {}, gridWidth |-> 0, gridHeight |-> 0]

NoPath == <<>>

\* PathFinder.updateGrid: every cell blocked, then roads inside the grid
\* walkable, then obstacles blocked again.  Direction annotations of the
\* roads are not read.
updateGrid(roads, obstacles, gridRows, gridCols) ==
    [hasGrid |-> TRUE,
     walkable |-> {k \in DOMAIN roads :
                      isValidGridPosition(k[1], k[2], gridRows, gridCols)}
                  \ obstacles,
     gridWidth |-> gridCols,
     gridHeight |-> gridRows]

\* Faulty variant of Neighbors: diagonal moves are allowed
NeighborsWithDiagonals(cell) ==
    << <<cell[1] - 1, cell[2]>>, <<cell[1], cell[2] + 1>>,
       <<cell[1] + 1, cell[2]>>, <<cell[1], cell[2] - 1>>,
       <<cell[1] - 1, cell[2] - 1>>, <<cell[1] - 1, cell[2] + 1>>,
       <<cell[1] + 1, cell[2] + 1>>, <<cell[1] + 1, cell[2] - 1>> >>

\* Neighbours in the order of PF.Grid.getNeighbors without diagonals:
\* up, right, down, left.
Neighbors(cell) ==
    << <<cell[1] - 1, cell[2]>>, <<cell[1], cell[2] + 1>>,
       <<cell[1] + 1, cell[2]>>, <<cell[1], cell[2] - 1>> >>

RECURSIVE Search(_, _, _, _)
\* Unit-weight shortest path search over the walkable cells (what
\* PF.AStarFinder with the manhattan heuristic returns): frontier is a queue
\* of partial paths, expanded in neighbour order.
Search(walkable, frontier, visited, goal) ==
    IF frontier = <<>> THEN NoPath
    ELSE LET p == Head(frontier)
             u == p[Len(p)]
         IN IF u = goal THEN p
            ELSE LET ns == SelectSeq(Neighbors(u),
                              LAMBDA n : n \in walkable /\ n \notin visited)
                     ext == [i \in 1..Len(ns) |-> Append(p, ns[i])]
                 IN Search(walkable, Tail(frontier) \o ext,
                           visited \cup SeqSet(ns), goal)

\* PathFinder.findPath
findPath(pf, startRow, startCol, endRow, endCol) ==
    IF ~pf.hasGrid THEN NoPath
    ELSE IF ~isValidGridPosition(startRow, startCol, pf.gridHeight, pf.gridWidth)
            \/ ~isValidGridPosition(endRow, endCol, pf.gridHeight, pf.gridWidth)
         THEN NoPath
    ELSE IF <<startRow, startCol>> \notin pf.walkable THEN NoPath
    ELSE IF <<endRow, endCol>> \notin pf.walkable THEN NoPath
    ELSE Search(pf.walkable, << << <<startRow, startCol>> >> >>,
                {<<startRow, startCol>>}, <<endRow, endCol>>)

\* PathFinder.findPath as its caller sees it: "path" when a path is returned,
\* "null" when null is returned (lines 128-131 without a grid, 140-155 for
\* end points outside the grid or not walkable, 167-170 without a route,
\* 172-175 after an error of the finder), "raised" when an error leaves the
\* method, which no branch does.
findPathOutcome(pf, startRow, startCol, endRow, endCol) ==
    IF ~pf.hasGrid THEN "null"
    ELSE IF findPath(pf, startRow, startCol, endRow, endCol) = NoPath THEN "null"
    ELSE "path"

\* Cells on the boundary of the square of the given radius that are valid
\* and walkable.
RingHits(pf, position, radius, gridRows, gridCols) ==
    {d \in ((-radius)..radius) \X ((-radius)..radius) :
        /\ Abs(d[1]) = radius \/ Abs(d[2]) = radius
        /\ isValidGridPosition(position.row + d[1], position.col + d[2],
                               gridRows, gridCols)
        /\ pf.hasGrid
        /\ <<position.row + d[1], position.col + d[2]>> \in pf.walkable}

\* First offset in the scan order of the nested loops: deltaRow ascending,
\* then deltaCol ascending.
FirstOffset(hits) ==
    CHOOSE d \in hits :
        \A e \in hits : d[1] < e[1] \/ (d[1] = e[1] /\ d[2] <= e[2])

NoPosition == [found |-> FALSE, row |-> 0, col |-> 0]

\* PathFinder.findNearestValidPosition
findNearestValidPosition(pf, position, gridRows, gridCols) ==
    IF /\ isValidGridPosition(position.row, position.col, gridRows, gridCols)
       /\ pf.hasGrid
       /\ <<position.row, position.col>> \in pf.walkable
    THEN [found |-> TRUE, row |-> position.row, col |-> position.col]
    ELSE LET radii == {r \in 1..Max(gridRows, gridCols) :
                          RingHits(pf, position, r, gridRows, gridCols) # {}}
         IN IF radii = {} THEN NoPosition
            ELSE LET r == CHOOSE x \in radii : \A y \in radii : x <= y
                     d == FirstOffset(RingHits(pf, position, r, gridRows, gridCols))
                 IN [found |-> TRUE, row |-> position.row + d[1],
                     col |-> position.col + d[2]]

\* PathFinder.findPathWithEntrances, actualStart / actualEnd: a position
\* flagged isEntrance is snapped to the nearest walkable cell; one handed over
\* without the flag (Car.requestNewPath builds {row, col}) is used as it is.
actualPosition(pf, position, gridRows, gridCols) ==
    IF position.isEntrance
    THEN findNearestValidPosition(pf, position, gridRows, gridCols)
    ELSE [found |-> TRUE, row |-> position.row, col |-> position.col]

\* PathFinder.findPathWithEntrances, from the two snapped positions on
findPathBetween(pf, actualStart, actualEnd) ==
    IF ~actualStart.found THEN NoPath
    ELSE IF ~actualEnd.found THEN NoPath
    ELSE findPath(pf, actualStart.row, actualStart.col,
                  actualEnd.row, actualEnd.col)

\* PathFinder.findPathWithEntrances
findPathWithEntrances(pf, start, end, gridRows, gridCols) ==
    findPathBetween(pf, actualPosition(pf, start, gridRows, gridCols),
                    actualPosition(pf, end, gridRows, gridCols))

\* ------------------------------------------------------------------- state

VARIABLES
    levelFile,   \* the processed content of the level file the scene loads
    loads,       \* GameScene.loadLevel calls whose fetch has not resolved yet
    gs,          \* GameState
    gm,          \* GridManager
    pf,          \* PathFinder
    cm,          \* CarManager
    car,         \* the Car objects, by id
    te,          \* pending scene.time events, in the order they were added
    input,       \* scene.input.enabled
    frame,       \* the frame loop: phase, delta of the frame, time % cleanupPeriod,
                 \* frames begun since a level load was issued
    runs,        \* simulation runs started on the loaded level
    obs          \* what the last step did: path requests handled, events
                 \* emitted, payloads of the carFailed events, vehicles of
                 \* the carReachedExit events, runs of the two end-condition
                 \* evaluators with their counts and result, number of
                 \* levelWon / levelLost events emitted, spawn attempts
                 \* that found their entrance occupied, path queries
                 \* answered with their start and goal cells and result,
                 \* time events whose callback ran

vars == <<levelFile, loads, gs, gm, pf, cm, car, te, input, frame, runs, obs>>

\* The objects an operation reads and writes, as one record.
World ==
    [gs |-> gs, gm |-> gm, pf |-> pf, cm |-> cm, car |-> car, te |-> te,
     input |-> input, obs |-> obs]

NoObs ==
    [requested |-> {}, emitted |-> {}, failures |-> {}, reached |-> {},
     evaluated |-> {}, verdicts |-> 0, skipped |-> {}, queries |-> {},
     fired |-> {}]

Emit(w, event) == [w EXCEPT !.obs.emitted = @ \cup {event}]

\* gameState.emit('levelWon' / 'levelLost')
EmitVerdict(w, event) == [Emit(w, event) EXCEPT !.obs.verdicts = @ + 1]

\* An evaluator ran on these counts, with this minimum sample size and result
Evaluated(w, by, reached, failed, minimum, verdict) ==
    [w EXCEPT !.obs.evaluated = @ \cup {[by |-> by, reached |-> reached,
                                          failed |-> failed, minimum |-> minimum,
                                          verdict |-> verdict]}]

\* --------------------------------------------------------------- GameState

ZeroStats == [carsSpawned |-> 0, carsReachedExit |-> 0, carsFailed |-> 0]

\* GameConfig has no defaultBudget: reset leaves the budget undefined, and
\* every comparison with it is false.
undefinedBudget == -1

\* GameState.reset.  terminatedInRun is a history field: the vehicles that
\* reached the exit or failed since the simulation was last started, counted
\* up to the largest sample size an evaluator waits for.
gsReset(g) ==
    [budget |-> undefinedBudget, gameState |-> "building", isSimulating |-> FALSE,
     level |-> NoLevel, roads |-> NoRoads, cars |-> <<>>, stats |-> ZeroStats,
     dirty |-> TRUE, terminatedInRun |-> 0]

\* GameState.canAfford
canAfford(g, cost) == g.budget # undefinedBudget /\ g.budget >= cost

\* ------------------------------------------------------------- GridManager

NoGridManager ==
    [roads |-> NoRoads, levelData |-> NoLevel, rows |-> 0, columns |-> 0,
     isInitialized |-> FALSE]

\* GridManager.initialize: destroy() clears cells and roads, then the cells
\* are created from the level data.
gmInitialize(levelData) ==
    [roads |-> NoRoads, levelData |-> levelData, rows |-> levelData.rows,
     columns |-> levelData.columns, isInitialized |-> TRUE]

\* GridManager.isValidPosition
isValidPosition(g, row, col) ==
    row >= 0 /\ row < g.rows /\ col >= 0 /\ col < g.columns

\* GridManager.isPositionEditable: the cell exists and is EDITABLE or ROAD
isPositionEditable(g, row, col) ==
    /\ isValidPosition(g, row, col)
    /\ g.isInitialized
    /\ gridKey(row, col) \notin g.levelData.uneditableCells

\* GridManager.hasRoad
gmHasRoad(g, row, col) == gridKey(row, col) \in DOMAIN g.roads

\* GridManager.placeRoad accepts
gmCanPlaceRoad(g, row, col) ==
    /\ isValidPosition(g, row, col)
    /\ isPositionEditable(g, row, col)
    /\ ~gmHasRoad(g, row, col)

\* ---------------------------------------------------------------------- Car

NoTween == [active |-> FALSE, remaining |-> 0, target |-> <<0, 0>>]

NoCar ==
    [live |-> FALSE, color |-> "", gridRow |-> 0, gridCol |-> 0,
     spawnPosition |-> Pos(0, 0, FALSE), targetPosition |-> Pos(0, 0, FALSE),
     path |-> <<>>, pathIndex |-> 0, hasPath |-> FALSE, needsNewPath |-> FALSE,
     isMoving |-> FALSE, tween |-> NoTween, state |-> "none", waitTime |-> 0,
     blockedBy |-> 0, isBlocked |-> FALSE, sinceMove |-> 0]

\* Car constructor.  sinceMove is a history field: the waiting time
\* accumulated since the last completed move, saturating above maxWaitTime.
NewCar(carData, spawnPosition, targetPosition) ==
    [live |-> TRUE, color |-> carData.color,
     gridRow |-> spawnPosition.row, gridCol |-> spawnPosition.col,
     spawnPosition |-> spawnPosition, targetPosition |-> targetPosition,
     path |-> <<>>, pathIndex |-> 0, hasPath |-> FALSE, needsNewPath |-> TRUE,
     isMoving |-> FALSE, tween |-> NoTween, state |-> "spawning", waitTime |-> 0,
     blockedBy |-> 0, isBlocked |-> FALSE, sinceMove |-> 0]

isTerminal(c) == c.state = "reached_exit" \/ c.state = "failed"

\* Faulty variant of setPath: a vehicle that gets no path fails
setPathOrFail(c, path) ==
    IF Len(path) > 0
    THEN [c EXCEPT !.path = path, !.pathIndex = 0, !.hasPath = TRUE,
                   !.state = "moving"]
    ELSE [c EXCEPT !.path = <<>>, !.pathIndex = 0, !.hasPath = FALSE,
                   !.state = "failed"]

\* Car.setPath
setPath(c, path) ==
    IF Len(path) > 0
    THEN [c EXCEPT !.path = path, !.pathIndex = 0, !.hasPath = TRUE,
                   !.state = "moving"]
    ELSE [c EXCEPT !.path = <<>>, !.pathIndex = 0, !.hasPath = FALSE,
                   !.state = "waiting"]

\* Car.checkCollision: the answer of the collision check event is dropped
\* and the method returns false.
checkCollision(c, targetCell) == FALSE

\* Car.moveToCell: a tween of carSpeed ms towards the target cell replaces
\* any tween still running.
moveToCell(c, targetCell) ==
    [c EXCEPT !.isMoving = TRUE,
              !.tween = [active |-> TRUE, remaining |-> carSpeed,
                         target |-> targetCell]]

\* Car.isNearTarget
isNearTarget(c) ==
    /\ c.targetPosition.isEntrance
    /\ Abs(c.gridRow - c.targetPosition.row)
         + Abs(c.gridCol - c.targetPosition.col) <= 1

\* Faulty variant of timedOut: the failure threshold is the re-query interval
timedOutAtRequery(c) == c.waitTime > requeryInterval

\* Car.updateWaiting, line 788
timedOut(c) == c.waitTime > maxWaitTime

\* Car.stop
carStop(c) == [c EXCEPT !.tween = NoTween, !.isMoving = FALSE, !.state = "waiting"]

\* Car.destroy: stops the tween; the object stays readable for whoever
\* still holds it.
carDestroy(c) == [c EXCEPT !.tween = NoTween]

\* -------------------------------------------------------------- CarManager

EmptyCmStats ==
    [totalSpawned |-> 0, totalReachedExit |-> 0, totalFailed |-> 0,
     spawnedByType |-> <<>>, succeededByType |-> <<>>, failedByType |-> <<>>]

NoCarManager ==
    [cars |-> <<>>, carsByPosition |-> [k \in {} |-> {}], isSpawning |-> FALSE,
     levelData |-> NoLevel, stats |-> EmptyCmStats]

\* CarManager.checkEndConditions, line 563
cmMinCarsToCheck(c) ==
    IF c.levelData # NoLevel THEN Len(c.levelData.cars) * cmSamplePerType
    ELSE cmSampleNoLevel

\* CarManager.updatePathfindingGrid
updatePathfindingGrid(w) ==
    [w EXCEPT !.pf = updateGrid(w.gm.roads,
                                IF w.gm.levelData # NoLevel
                                THEN w.gm.levelData.uneditableCells ELSE {},
                                w.gm.rows, w.gm.columns),
              !.gs.dirty = FALSE]

\* CarManager.handlePathRequest
handlePathRequest(w, id, start, end) ==
    LET w1 == IF w.gs.dirty THEN updatePathfindingGrid(w) ELSE w
        path == findPathWithEntrances(w1.pf, start, end, w1.gm.rows, w1.gm.columns)
    IN [w1 EXCEPT !.car[id] = setPath(@, path),
                  !.obs.requested = @ \cup {id},
                  !.obs.queries = @ \cup {[start |-> CellOf(start),
                                           goal |-> CellOf(end),
                                           path |-> path]}]

\* CarManager.removeCarFromPosition
removeCarFromPosition(w, id) ==
    LET key == gridKey(w.car[id].gridRow, w.car[id].gridCol)
        m == w.cm.carsByPosition
    IN IF key \notin DOMAIN m THEN w
       ELSE IF m[key] \ {id} = {}
            THEN [w EXCEPT !.cm.carsByPosition = MapDelete(m, key)]
            ELSE [w EXCEPT !.cm.carsByPosition = MapSet(m, key, m[key] \ {id})]

\* CarManager.updateCarPosition
updateCarPosition(w, id, row, col) ==
    LET w1 == removeCarFromPosition(w, id)
        m == w1.cm.carsByPosition
        key == gridKey(row, col)
    IN [w1 EXCEPT !.cm.carsByPosition = MapSet(m, key, MapGetOr(m, key, {}) \cup {id}),
                  !.car[id].gridRow = row,
                  !.car[id].gridCol = col]

\* CarManager.isPositionOccupied
isPositionOccupied(c, row, col) ==
    /\ gridKey(row, col) \in DOMAIN c.carsByPosition
    /\ Cardinality(c.carsByPosition[gridKey(row, col)]) > 0

\* CarManager.getCarsAtPosition, as the set of ids of tracked cars
getCarsAtPosition(c, row, col) ==
    MapGetOr(c.carsByPosition, gridKey(row, col), {}) \cap SeqSet(c.cars)

\* CarManager.handleCollisionCheck: its only trace is car.blockedBy, set to
\* the first other car at the target cell.
handleCollisionCheck(w, id, targetCell) ==
    LET others == getCarsAtPosition(w.cm, targetCell[1], targetCell[2]) \ {id}
    IN IF others # {}
       THEN [w EXCEPT !.car[id].blockedBy =
                          CHOOSE o \in others : \A p \in others : o <= p]
       ELSE w

\* CarManager.findCarTypeIndex: index (from 1) of the first car type of
\* that colour, 0 if there is none
findCarTypeIndex(c, color) ==
    IF c.levelData = NoLevel THEN 0
    ELSE LET hits == {i \in DOMAIN c.levelData.cars : c.levelData.cars[i].color = color}
         IN IF hits = {} THEN 0 ELSE CHOOSE i \in hits : \A j \in hits : i <= j

Bump(m, k) == MapSet(m, k, MapGetOr(m, k, 0) + 1)

RemoveEvent(id, delay) ==
    [kind |-> "remove", type |-> 0, car |-> id, remaining |-> delay, tracked |-> FALSE,
     stale |-> FALSE]

\* CarManager.handleCarReachedExit
handleCarReachedExit(w, id) ==
    LET idx == findCarTypeIndex(w.cm, w.car[id].color)
    IN [w EXCEPT !.cm.stats.totalReachedExit = @ + 1,
                 !.cm.stats.succeededByType = IF idx # 0 THEN Bump(@, idx) ELSE @,
                 !.te = Append(@, RemoveEvent(id, reachedRemovalDelay))]

\* CarManager.handleCarFailed
handleCarFailed(w, id) ==
    LET idx == findCarTypeIndex(w.cm, w.car[id].color)
    IN [w EXCEPT !.cm.stats.totalFailed = @ + 1,
                 !.cm.stats.failedByType = IF idx # 0 THEN Bump(@, idx) ELSE @,
                 !.te = Append(@, RemoveEvent(id, failedRemovalDelay))]

\* Faulty variant of clearAllCars: the occupancy index is left as it was
clearAllCarsKeepIndex(w) ==
    [w EXCEPT !.car = [i \in Ids |-> IF i \in SeqSet(w.cm.cars)
                                     THEN carDestroy(w.car[i]) ELSE w.car[i]],
              !.cm.cars = <<>>]

\* CarManager.clearAllCars
clearAllCars(w) ==
    [w EXCEPT !.car = [i \in Ids |-> IF i \in SeqSet(w.cm.cars)
                                     THEN carDestroy(w.car[i]) ELSE w.car[i]],
              !.cm.cars = <<>>,
              !.cm.carsByPosition = [k \in {} |-> {}]]

\* The time events that are pending belong to a run that was stopped (stale
\* is a history field)
Outlived(events) == [i \in DOMAIN events |-> [events[i] EXCEPT !.stale = TRUE]]

\* Faulty variant of cmStopSimulation: the spawn timers are left running
cmStopSimulationKeepsTimers(w) ==
    clearAllCars([w EXCEPT !.cm.isSpawning = FALSE, !.te = Outlived(@)])

\* CarManager.stopSimulation: the timers the spawnTimers map still holds are
\* destroyed, the map is cleared and every car is removed.
cmStopSimulation(w) ==
    clearAllCars([w EXCEPT !.cm.isSpawning = FALSE,
                           !.te = Outlived(SelectSeq(@, LAMBDA e : ~e.tracked))])

\* Faulty variant of scheduleCarSpawn: no per-type maximum
scheduleCarSpawnUncapped(w, carTypeIndex, jitter) ==
    IF ~w.cm.isSpawning THEN w
    ELSE [w EXCEPT !.te =
            Append([i \in DOMAIN @ |->
                      IF @[i].kind = "spawn" /\ @[i].type = carTypeIndex
                      THEN [@[i] EXCEPT !.tracked = FALSE] ELSE @[i]],
                   [kind |-> "spawn", type |-> carTypeIndex, car |-> 0,
                    remaining |-> carSpawnInterval + jitter, tracked |-> TRUE,
                    stale |-> FALSE])]

\* CarManager.scheduleCarSpawn: the new timer takes the type's place in the
\* spawnTimers map.
scheduleCarSpawn(w, carTypeIndex, jitter) ==
    IF ~w.cm.isSpawning THEN w
    ELSE IF MapGetOr(w.cm.stats.spawnedByType, carTypeIndex, 0) >= maxCarsPerType
         THEN w
    ELSE [w EXCEPT !.te =
            Append([i \in DOMAIN @ |->
                      IF @[i].kind = "spawn" /\ @[i].type = carTypeIndex
                      THEN [@[i] EXCEPT !.tracked = FALSE] ELSE @[i]],
                   [kind |-> "spawn", type |-> carTypeIndex, car |-> 0,
                    remaining |-> carSpawnInterval + jitter, tracked |-> TRUE,
                    stale |-> FALSE])]

RECURSIVE scheduleAll(_, _, _)
\* CarManager.startSimulation, the loop over the car types
scheduleAll(w, index, jitters) ==
    IF index > Len(w.cm.levelData.cars) THEN w
    ELSE scheduleAll(scheduleCarSpawn(w, index, jitters[index]), index + 1, jitters)

\* CarManager.startSimulation
cmStartSimulation(w, jitters) ==
    IF w.cm.levelData = NoLevel THEN w
    ELSE scheduleAll(updatePathfindingGrid([w EXCEPT !.cm.isSpawning = TRUE]),
                     1, jitters)

\* CarManager.initializeForLevel
initializeForLevel(w, levelData) ==
    LET w1 == clearAllCars([w EXCEPT !.cm.levelData = levelData])
        zero == [i \in DOMAIN levelData.cars |-> 0]
    IN [w1 EXCEPT !.cm.stats = [EmptyCmStats EXCEPT !.spawnedByType = zero,
                                                    !.succeededByType = zero,
                                                    !.failedByType = zero]]

\* ------------------------------------------- GameState, operations on a run

\* GameState.stopSimulation; simulationStopped is heard by
\* CarManager.stopSimulation and then GameScene.onSimulationStopped, which
\* enables the input again.
gsStopSimulation(w) ==
    IF ~w.gs.isSimulating THEN w
    ELSE LET w1 == [w EXCEPT !.gs.isSimulating = FALSE,
                             !.gs.gameState = "building",
                             !.gs.cars = <<>>]
             w2 == cmStopSimulation(Emit(w1, "simulationStopped"))
         IN [w2 EXCEPT !.input = TRUE]

\* Faulty variant of onLevelVerdict: the message is shown and the simulation
\* goes on
onLevelVerdictShown(w) == w

\* GameScene.onLevelWon / onLevelLost
onLevelVerdict(w) == gsStopSimulation(w)

\* Faulty variant of gsEndCondition: the level is lost only when no vehicle
\* reached the exit
gsEndConditionTotalLoss(g) ==
    LET reached == g.stats.carsReachedExit
        failed == g.stats.carsFailed
        totalCars == reached + failed
        minCarsToCheck == Len(g.level.cars) * gsSamplePerType
    IN IF totalCars < minCarsToCheck THEN "none"
       ELSE IF reached * 100 >= successThreshold * totalCars THEN "won"
       ELSE IF reached = 0 THEN "lost"
       ELSE "none"

\* GameState.checkGameEndConditions, lines 404-420: the decision.  The
\* success rate reached / totalCars is compared as a percentage.
gsEndCondition(g) ==
    LET reached == g.stats.carsReachedExit
        failed == g.stats.carsFailed
        totalCars == reached + failed
        minCarsToCheck == Len(g.level.cars) * gsSamplePerType
    IN IF totalCars < minCarsToCheck THEN "none"
       ELSE IF reached * 100 >= successThreshold * totalCars THEN "won"
       ELSE IF failed > reached THEN "lost"
       ELSE "none"

\* GameState.checkGameEndConditions, lines 410-420: what follows the decision
gsActOnEndCondition(w, verdict) ==
    CASE verdict = "won" ->
           onLevelVerdict(EmitVerdict(
               gsStopSimulation([w EXCEPT !.gs.gameState = "won"]), "levelWon"))
      [] verdict = "lost" ->
           onLevelVerdict(EmitVerdict(
               gsStopSimulation([w EXCEPT !.gs.gameState = "lost"]), "levelLost"))
      [] OTHER -> w

\* GameState.checkGameEndConditions
checkGameEndConditions(w) ==
    IF ~w.gs.isSimulating THEN w
    ELSE gsActOnEndCondition(
           Evaluated(w, "GameState", w.gs.stats.carsReachedExit,
                     w.gs.stats.carsFailed, Len(w.gs.level.cars) * gsSamplePerType,
                     gsEndCondition(w.gs)),
           gsEndCondition(w.gs))

\* GameState.removeCar
gsRemoveCar(w, id) ==
    IF id \notin SeqSet(w.gs.cars) THEN w
    ELSE checkGameEndConditions(
           [w EXCEPT !.gs.cars = SeqRemove(@, id),
                     !.gs.stats.carsReachedExit =
                         IF w.car[id].state = "reached_exit" THEN @ + 1 ELSE @,
                     !.gs.stats.carsFailed =
                         IF w.car[id].state = "failed" THEN @ + 1 ELSE @])

\* GameState.addCar
gsAddCar(w, id) ==
    [w EXCEPT !.gs.cars = Append(@, id), !.gs.stats.carsSpawned = @ + 1]

\* GameState.initializeWithLevel; levelLoaded is heard by
\* CarManager.initializeForLevel.  The budget is the level's.
initializeWithLevel(w, levelData) ==
    initializeForLevel(
        [w EXCEPT !.gs = [budget |-> levelData.budget, gameState |-> "building",
                          isSimulating |-> FALSE, level |-> levelData,
                          roads |-> NoRoads, cars |-> <<>>, stats |-> ZeroStats,
                          dirty |-> TRUE, terminatedInRun |-> 0]],
        levelData)

\* GameState.placeRoad accepts
gsCanPlaceRoad(g, row, col) ==
    /\ ~g.isSimulating
    /\ canAfford(g, roadCost)
    /\ gridKey(row, col) \notin DOMAIN g.roads

\* Faulty variant of gsPlaceRoad: the dirty flag is left as it was
gsPlaceRoadKeepsFlag(g, row, col) ==
    IF gsCanPlaceRoad(g, row, col)
    THEN [g EXCEPT !.budget = @ - roadCost,
                   !.roads = MapSet(@, gridKey(row, col), <<>>)]
    ELSE g

\* GameState.placeRoad
gsPlaceRoad(g, row, col) ==
    IF gsCanPlaceRoad(g, row, col)
    THEN [g EXCEPT !.budget = @ - roadCost,
                   !.roads = MapSet(@, gridKey(row, col), <<>>),
                   !.dirty = TRUE]
    ELSE g

\* GameState.removeRoad accepts
gsCanRemoveRoad(g, row, col) ==
    ~g.isSimulating /\ gridKey(row, col) \in DOMAIN g.roads

\* Faulty variant of gsRemoveRoad: the cost of the road is not given back
gsRemoveRoadNoRefund(g, row, col) ==
    IF gsCanRemoveRoad(g, row, col)
    THEN [g EXCEPT !.roads = MapDelete(@, gridKey(row, col)), !.dirty = TRUE]
    ELSE g

\* GameState.removeRoad
gsRemoveRoad(g, row, col) ==
    IF gsCanRemoveRoad(g, row, col)
    THEN [g EXCEPT !.roads = MapDelete(@, gridKey(row, col)),
                   !.budget = IF @ = undefinedBudget THEN @ ELSE @ + roadCost,
                   !.dirty = TRUE]
    ELSE g

\* Faulty variant of gsUpdateRoadDirections: the grid is marked dirty also
\* when there is no road
gsUpdateRoadDirectionsMarks(g, row, col, directions) ==
    IF gridKey(row, col) \in DOMAIN g.roads
    THEN [g EXCEPT !.roads = MapSet(@, gridKey(row, col), directions),
                   !.dirty = TRUE]
    ELSE [g EXCEPT !.dirty = TRUE]

\* The events GameState.placeRoad (with spendBudget), removeRoad (with
\* addBudget) and updateRoadDirections emit
gsRoadEvents(g, method, row, col) ==
    CASE method = "placeRoad" ->
           IF gsCanPlaceRoad(g, row, col) THEN {"budgetChanged", "roadPlaced"} ELSE {}
      [] method = "removeRoad" ->
           IF gsCanRemoveRoad(g, row, col) THEN {"budgetChanged", "roadRemoved"} ELSE {}
      [] OTHER ->
           IF gridKey(row, col) \in DOMAIN g.roads THEN {"roadDirectionsUpdated"} ELSE {}

\* GameState.updateRoadDirections
gsUpdateRoadDirections(g, row, col, directions) ==
    IF gridKey(row, col) \in DOMAIN g.roads
    THEN [g EXCEPT !.roads = MapSet(@, gridKey(row, col), directions),
                   !.dirty = TRUE]
    ELSE g

\* Faulty variant of gsStartSimulation: a start during a run is accepted
gsStartSimulationAgain(w, jitters) ==
    IF DOMAIN w.gs.roads = {} THEN w
    ELSE LET w1 == [w EXCEPT !.gs.isSimulating = TRUE,
                             !.gs.gameState = "simulating",
                             !.gs.stats = ZeroStats,
                             !.gs.terminatedInRun = 0]
             w2 == cmStartSimulation(Emit(w1, "simulationStarted"), jitters)
         IN [w2 EXCEPT !.input = FALSE]

\* GameState.startSimulation; simulationStarted is heard by
\* CarManager.startSimulation and then GameScene.onSimulationStarted, which
\* disables the input.
gsStartSimulation(w, jitters) ==
    IF w.gs.isSimulating THEN w
    ELSE IF DOMAIN w.gs.roads = {} THEN w
    ELSE LET w1 == [w EXCEPT !.gs.isSimulating = TRUE,
                             !.gs.gameState = "simulating",
                             !.gs.stats = ZeroStats,
                             !.gs.terminatedInRun = 0]
             w2 == cmStartSimulation(Emit(w1, "simulationStarted"), jitters)
         IN [w2 EXCEPT !.input = FALSE]

\* ------------------------------------------------- CarManager, car lifecycle

\* CarManager.removeCar
cmRemoveCar(w, id) ==
    IF id \notin SeqSet(w.cm.cars) THEN w
    ELSE LET w1 == removeCarFromPosition(w, id)
         IN gsRemoveCar([w1 EXCEPT !.cm.cars = SeqRemove(@, id),
                                   !.car[id] = carDestroy(@)], id)

\* CarManager.addCar and requestPathForCar: the first path request starts at
\* the spawn position, entrance flag included.
cmAddCar(w, id) ==
    LET w1 == [w EXCEPT !.cm.cars = Append(@, id)]
        w2 == updateCarPosition(w1, id, w1.car[id].gridRow, w1.car[id].gridCol)
    IN handlePathRequest(w2, id, w2.car[id].spawnPosition, w2.car[id].targetPosition)

\* Faulty variant of entranceBlocked: the entrance is never found occupied
entranceNeverBlocked(c, entrance) == FALSE

\* CarManager.spawnCar, line 190
entranceBlocked(c, entrance) == isPositionOccupied(c, entrance.row, entrance.col)

\* Faulty variant of skipSpawn: a blocked entrance ends the spawning
skipSpawnCancels(w, carTypeIndex, entrance) ==
    [w EXCEPT !.cm.isSpawning = FALSE,
              !.obs.skipped = @ \cup {[type |-> carTypeIndex, at |-> CellOf(entrance)]}]

\* CarManager.spawnCar, lines 190-193: the entrance is occupied and the
\* method returns
skipSpawn(w, carTypeIndex, entrance) ==
    [w EXCEPT !.obs.skipped = @ \cup {[type |-> carTypeIndex, at |-> CellOf(entrance)]}]

\* CarManager.spawnCar
spawnCar(w, carTypeIndex, entranceIndex, id) ==
    IF ~w.cm.isSpawning THEN w
    ELSE LET carType == w.cm.levelData.cars[carTypeIndex]
             entrance == carType.entrances[entranceIndex]
         IN IF entranceBlocked(w.cm, entrance)
            THEN skipSpawn(w, carTypeIndex, entrance)
            ELSE LET w1 == [w EXCEPT !.car[id] = NewCar(carType, entrance, carType.exit)]
                     w2 == cmAddCar(w1, id)
                     w3 == [w2 EXCEPT !.cm.stats.totalSpawned = @ + 1,
                                      !.cm.stats.spawnedByType = Bump(@, carTypeIndex)]
                 IN gsAddCar(Emit(w3, "carSpawned"), id)

\* --------------------------------------------------------- Car, state machine

\* A vehicle terminated: one more for the run in progress, if there is one
Terminated(w) ==
    IF w.gs.isSimulating
    THEN [w EXCEPT !.gs.terminatedInRun = Min(@ + 1, cmMinCarsToCheck(w.cm))]
    ELSE w

\* Car.reachDestination; carReachedExit is heard by
\* CarManager.handleCarReachedExit.
reachDestination(w, id) ==
    handleCarReachedExit(
        Emit([Terminated(w)
                EXCEPT !.car[id].state = "reached_exit",
                       !.car[id].tween = NoTween,
                       !.car[id].isMoving = FALSE,
                       !.obs.reached = @ \cup {id}], "carReachedExit"),
        id)

\* Car.triggerFailure; carFailed is heard by CarManager.handleCarFailed.
triggerFailure(w, id) ==
    handleCarFailed(
        Emit([Terminated(w)
                EXCEPT !.car[id].state = "failed",
                       !.car[id].tween = NoTween,
                       !.car[id].isMoving = FALSE,
                       !.obs.failures = @ \cup {[car |-> id,
                                                 from |-> w.car[id].state,
                                                 waited |-> w.car[id].sinceMove]}],
             "carFailed"),
        id)

\* Car.checkIfReachedExit
checkIfReachedExit(w, id) ==
    LET c == w.car[id]
        atTarget == c.gridRow = c.targetPosition.row
                    /\ c.gridCol = c.targetPosition.col
    IN IF atTarget \/ isNearTarget(c) THEN reachDestination(w, id) ELSE w

\* Car.onMoveComplete
onMoveComplete(w, id) ==
    LET t == w.car[id].tween.target
    IN checkIfReachedExit(
         [w EXCEPT !.car[id] = [@ EXCEPT !.isMoving = FALSE, !.tween = NoTween,
                                         !.gridRow = t[1], !.gridCol = t[2],
                                         !.pathIndex = @ + 1, !.waitTime = 0,
                                         !.sinceMove = 0]],
         id)

\* Car.updateSpawning: time is the scene clock (ms since the page loaded) and
\* spawnTime is Date.now() (ms since 1970), so time - spawnTime stays below
\* spawnDelay and the state is left alone.
updateSpawning(w, id) == w

\* Car.requestNewPath: the request starts at the cell the car is at, without
\* the entrance flag.
requestNewPath(w, id) ==
    [handlePathRequest(w, id, Pos(w.car[id].gridRow, w.car[id].gridCol, FALSE),
                       w.car[id].targetPosition)
       EXCEPT !.car[id].needsNewPath = FALSE]

\* Car.updateMoving, lines 759-762: without a path the car waits
waitWithoutPath(w, id) ==
    IF ~w.car[id].hasPath \/ Len(w.car[id].path) = 0
    THEN [w EXCEPT !.car[id].state = "waiting"]
    ELSE w

\* Car.updateMoving, lines 754-762: past the end of the path the car has
\* arrived
arriveAtPathEnd(w, id) ==
    waitWithoutPath(IF w.car[id].hasPath /\ w.car[id].pathIndex >= Len(w.car[id].path)
                    THEN reachDestination(w, id)
                    ELSE w,
                    id)

\* Car.updateMoving, lines 743-762: the step to nextCell after the collision
\* check event was handled
stepOrWait(w, id, nextCell) ==
    IF checkCollision(w.car[id], nextCell)
    THEN [w EXCEPT !.car[id].state = "waiting", !.car[id].isBlocked = TRUE]
    ELSE arriveAtPathEnd([w EXCEPT !.car[id] = moveToCell(@, nextCell)], id)

\* Car.updateMoving, lines 739-762
moveAlongPath(w, id) ==
    IF /\ w.car[id].hasPath
       /\ ~w.car[id].isMoving
       /\ w.car[id].pathIndex < Len(w.car[id].path)
    THEN stepOrWait(handleCollisionCheck(w, id, w.car[id].path[w.car[id].pathIndex + 1]),
                    id, w.car[id].path[w.car[id].pathIndex + 1])
    ELSE arriveAtPathEnd(w, id)

\* Car.updateMoving
updateMoving(w, id) ==
    moveAlongPath(IF w.car[id].needsNewPath THEN requestNewPath(w, id) ELSE w, id)

\* Car.updateWaiting, lines 792-796: after requeryInterval of waiting a new
\* path is flagged as needed and the wait counter starts again
flagNewPath(w, id) ==
    IF w.car[id].waitTime > requeryInterval
    THEN [w EXCEPT !.car[id].needsNewPath = TRUE, !.car[id].waitTime = 0]
    ELSE w

\* Car.updateWaiting, lines 787-796
failOrFlag(w, id) ==
    flagNewPath(IF timedOut(w.car[id]) THEN triggerFailure(w, id) ELSE w, id)

\* Car.updateWaiting, lines 777-796: a blocked car tries its next cell again
\* after the collision check event was handled
retryStep(w, id, nextCell) ==
    IF ~checkCollision(w.car[id], nextCell)
    THEN [w EXCEPT !.car[id].isBlocked = FALSE, !.car[id].blockedBy = 0,
                   !.car[id].state = "moving", !.car[id].waitTime = 0]
    ELSE failOrFlag(w, id)

\* Car.updateWaiting, lines 775-796
retryOrFail(w, id) ==
    IF /\ w.car[id].isBlocked
       /\ Len(w.car[id].path) > 0
       /\ w.car[id].pathIndex < Len(w.car[id].path)
    THEN retryStep(handleCollisionCheck(w, id, w.car[id].path[w.car[id].pathIndex + 1]),
                   id, w.car[id].path[w.car[id].pathIndex + 1])
    ELSE failOrFlag(w, id)

\* Car.updateWaiting
updateWaiting(w, id, delta) ==
    retryOrFail([w EXCEPT !.car[id].waitTime = @ + delta,
                          !.car[id].sinceMove = Min(@ + delta, maxWaitTime + 1)],
                id)

\* Car.update
carUpdate(w, id, delta) ==
    CASE w.car[id].state = "spawning" -> updateSpawning(w, id)
      [] w.car[id].state = "moving" -> updateMoving(w, id)
      [] w.car[id].state = "waiting" -> updateWaiting(w, id, delta)
      [] OTHER -> w

RECURSIVE updateCars(_, _, _)
\* CarManager.update, the loop over the cars in insertion order
updateCars(w, ids, delta) ==
    IF ids = <<>> THEN w
    ELSE updateCars(carUpdate(w, Head(ids), delta), Tail(ids), delta)

RECURSIVE removeCars(_, _)
\* CarManager.cleanupTerminalCars, the loop over toRemove
removeCars(w, ids) ==
    IF ids = <<>> THEN w ELSE removeCars(cmRemoveCar(w, Head(ids)), Tail(ids))

\* CarManager.cleanupTerminalCars, line 476: Date.now() (ms since 1970) minus
\* lastMoveTime (the scene clock, set by every update) is above 10 seconds
\* for every car.
terminalTooLong(c) == TRUE

\* CarManager.cleanupTerminalCars
cleanupTerminalCars(w) ==
    removeCars(w, SelectSeq(w.cm.cars,
                            LAMBDA i : isTerminal(w.car[i]) /\ terminalTooLong(w.car[i])))

\* CarManager.update; clock is time % cleanupPeriod
cmUpdate(w, clock, delta) ==
    LET w1 == updateCars(w, w.cm.cars, delta)
    IN IF clock < delta THEN cleanupTerminalCars(w1) ELSE w1

\* Faulty variant of cmCheckEndConditions: the success rate has to be above
\* the threshold
cmCheckEndConditionsStrict(c) ==
    LET reached == c.stats.totalReachedExit
        failed == c.stats.totalFailed
        totalCars == reached + failed
        minCarsToCheck == cmMinCarsToCheck(c)
    IN IF totalCars < minCarsToCheck THEN "none"
       ELSE IF reached * 100 > successThreshold * totalCars THEN "won"
       ELSE IF failed > reached THEN "lost"
       ELSE "none"

\* CarManager.checkEndConditions; getSuccessRate() / 100 is compared as a
\* percentage.
cmCheckEndConditions(c) ==
    LET reached == c.stats.totalReachedExit
        failed == c.stats.totalFailed
        totalCars == reached + failed
        minCarsToCheck == cmMinCarsToCheck(c)
    IN IF totalCars < minCarsToCheck THEN "none"
       ELSE IF reached * 100 >= successThreshold * totalCars THEN "won"
       ELSE IF failed > reached THEN "lost"
       ELSE "none"

\* GameScene.checkEndConditions, lines 293-301: what follows the decision
sceneActOnEndCondition(w, verdict) ==
    CASE verdict = "won" ->
           onLevelVerdict(EmitVerdict([w EXCEPT !.gs.gameState = "won"], "levelWon"))
      [] verdict = "lost" ->
           onLevelVerdict(EmitVerdict([w EXCEPT !.gs.gameState = "lost"], "levelLost"))
      [] OTHER -> w

\* GameScene.checkEndConditions
sceneCheckEndConditions(w) ==
    IF ~w.gs.isSimulating THEN w
    ELSE sceneActOnEndCondition(
           Evaluated(w, "GameScene", w.cm.stats.totalReachedExit,
                     w.cm.stats.totalFailed, cmMinCarsToCheck(w.cm),
                     cmCheckEndConditions(w.cm)),
           cmCheckEndConditions(w.cm))

\* GameScene.update
sceneUpdate(w, clock, delta) == sceneCheckEndConditions(cmUpdate(w, clock, delta))

\* ------------------------------------------------------------ InputManager

\* InputManager.calculateDirection; "" is null
calculateDirection(fromCell, toCell) ==
    LET deltaRow == toCell[1] - fromCell[1]
        deltaCol == toCell[2] - fromCell[2]
    IN IF Abs(deltaRow) + Abs(deltaCol) # 1 THEN ""
       ELSE IF deltaRow = -1 THEN "up"
       ELSE IF deltaRow = 1 THEN "down"
       ELSE IF deltaCol = -1 THEN "left"
       ELSE "right"

\* InputManager.handleRoadPlacement
handleRoadPlacement(w, row, col) ==
    IF ~isPositionEditable(w.gm, row, col) THEN w
    ELSE IF gmHasRoad(w.gm, row, col) THEN w
    ELSE IF ~canAfford(w.gs, roadCost) THEN w
    ELSE IF ~gmCanPlaceRoad(w.gm, row, col) THEN w
    ELSE [w EXCEPT !.gm.roads = MapSet(@, gridKey(row, col), <<>>),
                   !.gs = gsPlaceRoad(@, row, col)]

\* InputManager.handleRoadDeletion: the road leaves the grid manager before
\* GameState.removeRoad is asked.
handleRoadDeletion(w, row, col) ==
    IF ~gmHasRoad(w.gm, row, col) THEN w
    ELSE [w EXCEPT !.gm.roads = MapDelete(@, gridKey(row, col)),
                   !.gs = gsRemoveRoad(@, row, col)]

\* InputManager.completeArrowDrawing with Road.addDirection
completeArrowDrawing(w, startCell, endCell) ==
    IF ~gmHasRoad(w.gm, startCell[1], startCell[2]) THEN w
    ELSE IF calculateDirection(startCell, endCell) = "" THEN w
    ELSE LET directions == Append(w.gm.roads[startCell],
                                  calculateDirection(startCell, endCell))
         IN [w EXCEPT !.gm.roads = MapSet(@, startCell, directions),
                      !.gs = gsUpdateRoadDirections(@, startCell[1], startCell[2],
                                                    directions)]

\* Arrows drawn on the board
RECURSIVE ArrowCount(_)
ArrowCount(roads) ==
    IF DOMAIN roads = {} THEN 0
    ELSE LET k == CHOOSE x \in DOMAIN roads : TRUE
         IN Len(roads[k]) + ArrowCount(MapDelete(roads, k))

\* ---------------------------------------------------------------- GameScene

\* GameScene.startSimulation
sceneStartSimulation(w, jitters) ==
    IF DOMAIN w.gs.roads = {} THEN w ELSE gsStartSimulation(w, jitters)

\* GameScene.toggleSimulation
toggleSimulation(w, jitters) ==
    IF w.gs.isSimulating THEN gsStopSimulation(w)
    ELSE sceneStartSimulation(w, jitters)

\* ------------------------------------------------------------- frame loop

\* Indexes of the time events that are due, and the first of them
DueEvents(events) == {i \in DOMAIN events : events[i].remaining = 0}

FirstDue(events) == CHOOSE i \in DueEvents(events) : \A j \in DueEvents(events) : i <= j

DueTweens(cars) == {i \in Ids : cars[i].tween.active /\ cars[i].tween.remaining = 0}

DropAt(s, i) == [j \in 1..(Len(s) - 1) |-> IF j < i THEN s[j] ELSE s[j + 1]]

\* Ids no object in flight uses (generateId never repeats one)
FreeIds(w) ==
    Ids \ (SeqSet(w.cm.cars) \cup SeqSet(w.gs.cars)
           \cup {w.te[i].car : i \in DOMAIN w.te})

\* Car objects nobody holds any more are forgotten
Canon(w) ==
    [i \in Ids |-> IF i \in SeqSet(w.cm.cars) \cup SeqSet(w.gs.cars)
                   THEN w.car[i] ELSE NoCar]

\* The operation starts with an empty record of what it did
Fresh == [World EXCEPT !.obs = NoObs]

Commit(w) ==
    /\ gs' = w.gs
    /\ gm' = w.gm
    /\ pf' = w.pf
    /\ cm' = w.cm
    /\ car' = Canon(w)
    /\ te' = w.te
    /\ input' = w.input
    /\ obs' = w.obs

\* ------------------------------------------------------------------ actions

\* GameScene.create, with the level file one of levels
Created(levels) ==
    /\ levelFile \in levels
    /\ loads = 1
    /\ gs = gsReset(0)
    /\ gm = NoGridManager
    /\ pf = NoGrid
    /\ cm = NoCarManager
    /\ car = [i \in Ids |-> NoCar]
    /\ te = <<>>
    /\ input = TRUE
    /\ frame = [phase |-> "idle", delta |-> 0, clock |-> 0, pending |-> 0]
    /\ runs = 0
    /\ obs = NoObs

Init == Created(Levels)

\* GameScene.loadLevel, after the fetch resolved
LevelLoaded ==
    /\ frame.phase = "idle"
    /\ loads > 0
    /\ loads' = loads - 1
    /\ Commit([initializeWithLevel(Fresh, levelFile)
                 EXCEPT !.gm = gmInitialize(levelFile)])
    /\ runs' = 0
    /\ frame' = [frame EXCEPT !.pending = 0]
    /\ UNCHANGED levelFile

\* GameScene.resetLevel (key R)
KeyR ==
    /\ frame.phase = "idle"
    /\ loads < MaxLoads
    /\ loads' = loads + 1
    /\ Commit([Fresh EXCEPT !.gs = gsReset(@)])
    /\ UNCHANGED <<levelFile, frame, runs>>

\* GameScene.toggleSimulation (key SPACE)
KeySpace ==
    /\ frame.phase = "idle"
    /\ gs.isSimulating \/ runs < MaxRuns
    /\ \E jitters \in [DOMAIN levelFile.cars -> Jitters] :
          Commit(toggleSimulation(Fresh, jitters))
    /\ runs' = IF gs'.isSimulating /\ ~gs.isSimulating THEN runs + 1 ELSE runs
    /\ UNCHANGED <<levelFile, loads, frame>>

\* InputManager.onCellClicked with the PLACE tool
ClickPlace ==
    /\ frame.phase = "idle"
    /\ input
    /\ gm.isInitialized
    /\ \E cell \in ClickCells : Commit(handleRoadPlacement(Fresh, cell[1], cell[2]))
    /\ UNCHANGED <<levelFile, loads, frame, runs>>

\* InputManager.onCellClicked with the DELETE tool
ClickDelete ==
    /\ frame.phase = "idle"
    /\ input
    /\ gm.isInitialized
    /\ \E cell \in ClickCells : Commit(handleRoadDeletion(Fresh, cell[1], cell[2]))
    /\ UNCHANGED <<levelFile, loads, frame, runs>>

\* A drag with the ARROW tool
DragArrow ==
    /\ frame.phase = "idle"
    /\ input
    /\ gm.isInitialized
    /\ ArrowCount(gm.roads) < MaxArrows
    /\ \E drag \in ArrowDrags : Commit(completeArrowDrawing(Fresh, drag[1], drag[2]))
    /\ UNCHANGED <<levelFile, loads, frame, runs>>

\* The scene clock and the tween manager advance by the frame's delta.
BeginFrame ==
    /\ frame.phase = "idle"
    /\ loads = 0 \/ frame.pending < MaxPendingFrames
    /\ \E delta \in Deltas :
          /\ frame' = [phase |-> "frame", delta |-> delta,
                       clock |-> (frame.clock + delta) % cleanupPeriod,
                       pending |-> IF loads > 0 THEN frame.pending + 1 ELSE 0]
          /\ te' = [i \in DOMAIN te |->
                      [te[i] EXCEPT !.remaining = Max(0, @ - delta)]]
          /\ car' = [i \in Ids |->
                       IF car[i].tween.active
                       THEN [car[i] EXCEPT !.tween.remaining = Max(0, @ - delta)]
                       ELSE car[i]]
    /\ obs' = NoObs
    /\ UNCHANGED <<levelFile, loads, gs, gm, pf, cm, input, runs>>

\* The callback of a spawn timer: spawnCar, then scheduleCarSpawn.
SpawnTimerFires ==
    /\ frame.phase = "frame"
    /\ DueEvents(te) # {}
    /\ te[FirstDue(te)].kind = "spawn"
    /\ LET w0 == [Fresh EXCEPT !.te = DropAt(te, FirstDue(te)),
                               !.obs.fired = {te[FirstDue(te)]}]
           carTypeIndex == te[FirstDue(te)].type
       IN /\ FreeIds(w0) # {}
          /\ \E jitter \in Jitters :
             \E entranceIndex \in DOMAIN levelFile.cars[carTypeIndex].entrances :
                Commit(scheduleCarSpawn(
                         spawnCar(w0, carTypeIndex, entranceIndex,
                                  CHOOSE i \in FreeIds(w0) :
                                      \A j \in FreeIds(w0) : i <= j),
                         carTypeIndex, jitter))
    /\ UNCHANGED <<levelFile, loads, frame, runs>>

\* The callback of a removal timer: CarManager.removeCar
RemovalTimerFires ==
    /\ frame.phase = "frame"
    /\ DueEvents(te) # {}
    /\ te[FirstDue(te)].kind = "remove"
    /\ Commit(cmRemoveCar([Fresh EXCEPT !.te = DropAt(te, FirstDue(te)),
                                        !.obs.fired = {te[FirstDue(te)]}],
                          te[FirstDue(te)].car))
    /\ UNCHANGED <<levelFile, loads, frame, runs>>

\* The onComplete callback of a movement tween
TweenComplete ==
    /\ frame.phase = "frame"
    /\ \E id \in DueTweens(car) : Commit(onMoveComplete(Fresh, id))
    /\ UNCHANGED <<levelFile, loads, frame, runs>>

\* GameScene.update, once the callbacks of the frame have run
SceneUpdate ==
    /\ frame.phase = "frame"
    /\ DueEvents(te) = {}
    /\ DueTweens(car) = {}
    /\ Commit(sceneUpdate(Fresh, frame.clock, frame.delta))
    /\ frame' = [frame EXCEPT !.phase = "idle", !.delta = 0]
    /\ UNCHANGED <<levelFile, loads, runs>>

Next ==
    \/ LevelLoaded
    \/ KeyR
    \/ KeySpace
    \/ ClickPlace
    \/ ClickDelete
    \/ DragArrow
    \/ BeginFrame
    \/ SpawnTimerFires
    \/ RemovalTimerFires
    \/ TweenComplete
    \/ SceneUpdate

Spec == Init /\ [][Next]_vars

\* A frame that has begun ends: the step of Next that does it is SceneUpdate,
\* which becomes possible once the finitely many callbacks that are due
\* have run.
FrameEnds ==
    /\ frame.phase = "frame"
    /\ frame' = [frame EXCEPT !.phase = "idle", !.delta = 0]

\* A level load in flight resolves: the step of Next that does it is
\* LevelLoaded.
LoadResolves == loads > 0 /\ loads' = loads - 1

\* The host keeps delivering frames and runs each of them to its end, and
\* the fetch of the level file completes.
FairSpec ==
    /\ Spec
    /\ WF_frame(BeginFrame)
    /\ WF_frame(FrameEnds)
    /\ WF_loads(LoadResolves)

\* The game on the level with an interior entrance and an exterior exit
ExitInit == Created({LevelM})

ExitSpec == ExitInit /\ [][Next]_vars

\* The game on the level with two car types of one colour
ColourInit == Created({LevelSameColour})

ColourSpec == ColourInit /\ [][Next]_vars

\* ------------------------------------------- the end-condition evaluators
\*
\* GameScene.checkEndConditions and GameState.checkGameEndConditions on their
\* own, applied to a running simulation in which reached + failed vehicles
\* have terminated and been removed.  No more than maxCarsPerType vehicles
\* of a type are spawned, which bounds the counts.

\* Vehicles of car type index spawned when total were spawned in all, the
\* types filling up in order
SpawnedOfType(index, total) ==
    Max(0, Min(maxCarsPerType, total - maxCarsPerType * (index - 1)))

\* Of them, those that reached the exit when reached did in all
ReachedOfType(index, total, reached) ==
    Max(0, Min(SpawnedOfType(index, total),
               reached - Min(total, maxCarsPerType * (index - 1))))

EvalStats(levelData, reached, failed) ==
    [totalSpawned |-> reached + failed, totalReachedExit |-> reached,
     totalFailed |-> failed,
     spawnedByType |-> [i \in DOMAIN levelData.cars |->
                          SpawnedOfType(i, reached + failed)],
     succeededByType |-> [i \in DOMAIN levelData.cars |->
                            ReachedOfType(i, reached + failed, reached)],
     failedByType |-> [i \in DOMAIN levelData.cars |->
                         SpawnedOfType(i, reached + failed)
                           - ReachedOfType(i, reached + failed, reached)]]

\* The running simulation, one road placed, before its spawn timers are set
EvalWorld(levelData, reached, failed) ==
    [gs |-> [budget |-> levelData.budget - roadCost, gameState |-> "simulating",
             isSimulating |-> TRUE, level |-> levelData,
             roads |-> MapSet(NoRoads, gridKey(1, 0), <<>>), cars |-> <<>>,
             stats |-> [carsSpawned |-> reached + failed,
                        carsReachedExit |-> reached, carsFailed |-> failed],
             dirty |-> FALSE,
             terminatedInRun |-> Min(reached + failed,
                                     Len(levelData.cars) * cmSamplePerType)],
     gm |-> [gmInitialize(levelData)
               EXCEPT !.roads = MapSet(NoRoads, gridKey(1, 0), <<>>)],
     pf |-> updateGrid(MapSet(NoRoads, gridKey(1, 0), <<>>),
                       levelData.uneditableCells, levelData.rows, levelData.columns),
     cm |-> [cars |-> <<>>, carsByPosition |-> [k \in {} |-> {}],
             isSpawning |-> TRUE, levelData |-> levelData,
             stats |-> EvalStats(levelData, reached, failed)],
     car |-> [i \in Ids |-> NoCar],
     te |-> <<>>,
     input |-> FALSE,
     obs |-> NoObs]

\* The objects are those of w
StartsAs(w) ==
    /\ gs = w.gs
    /\ gm = w.gm
    /\ pf = w.pf
    /\ cm = w.cm
    /\ car = w.car
    /\ te = w.te
    /\ input = w.input
    /\ obs = w.obs

EvalInit ==
    /\ levelFile \in EvalLevels
    /\ loads = 0
    /\ frame = [phase |-> "idle", delta |-> 0, clock |-> 0, pending |-> 0]
    /\ runs = 1
    /\ \E reached, failed \in 0..(maxCarsPerType * Len(levelFile.cars)) :
          /\ reached + failed <= maxCarsPerType * Len(levelFile.cars)
          /\ StartsAs(scheduleAll(EvalWorld(levelFile, reached, failed), 1,
                                   [i \in DOMAIN levelFile.cars |-> 0]))

\* GameScene.checkEndConditions
CheckEndConditions ==
    /\ Commit(sceneCheckEndConditions(Fresh))
    /\ UNCHANGED <<levelFile, loads, frame, runs>>

\* GameState.checkGameEndConditions
CheckGameEndConditions ==
    /\ Commit(checkGameEndConditions(Fresh))
    /\ UNCHANGED <<levelFile, loads, frame, runs>>

EvalNext ==
    \/ CheckEndConditions
    \/ CheckGameEndConditions

EvalSpec == EvalInit /\ [][EvalNext]_vars

\* --------------------------------------------------------- the path finder
\*
\* PathFinder.findPath on its own: a level is loaded, the player has placed
\* roads on some of its cells, and the finder is asked for paths between
\* cells of the grid and the entrance cell outside it, before and after
\* CarManager.updatePathfindingGrid has built the grid.

\* The objects after GameScene.create
CreatedWorld ==
    [gs |-> gsReset(0), gm |-> NoGridManager, pf |-> NoGrid, cm |-> NoCarManager,
     car |-> [i \in Ids |-> NoCar], te |-> <<>>, input |-> TRUE, obs |-> NoObs]

\* The objects after GameScene.loadLevel
LoadedWorld(levelData) ==
    [initializeWithLevel(CreatedWorld, levelData) EXCEPT !.gm = gmInitialize(levelData)]

RECURSIVE PlaceAll(_, _)
\* The player clicks on each of the cells with the PLACE tool
PlaceAll(w, cells) ==
    IF cells = {} THEN w
    ELSE LET cell == CHOOSE c \in cells : TRUE
         IN PlaceAll(handleRoadPlacement(w, cell[1], cell[2]), cells \ {cell})

\* Cells a path is asked for: the grid and the entrance outside it
QueryCells ==
    ((0..(minGridSize - 1)) \X (0..(minGridSize - 1)))
        \cup {CellOf(LevelOpen.cars[1].entrances[1])}

PathInit ==
    /\ levelFile = LevelOpen
    /\ loads = 0
    /\ frame = [phase |-> "idle", delta |-> 0, clock |-> 0, pending |-> 0]
    /\ runs = 0
    /\ \E cells \in SUBSET ((0..(minGridSize - 1)) \X (0..(minGridSize - 1))) :
          StartsAs([PlaceAll(LoadedWorld(levelFile), cells) EXCEPT !.obs = NoObs])

\* CarManager.updatePathfindingGrid
UpdatePathfindingGrid ==
    /\ gs.dirty
    /\ Commit(updatePathfindingGrid(Fresh))
    /\ UNCHANGED <<levelFile, loads, frame, runs>>

\* PathFinder.findPath
FindPath ==
    /\ \E start, end \in QueryCells :
          Commit([Fresh EXCEPT !.obs.queries =
                     {[start |-> start, goal |-> end,
                       path |-> findPath(pf, start[1], start[2], end[1], end[2])]}])
    /\ UNCHANGED <<levelFile, loads, frame, runs>>

PathNext ==
    \/ UpdatePathfindingGrid
    \/ FindPath

PathSpec == PathInit /\ [][PathNext]_vars

\* ------------------------------------------------------------- properties

\* Vehicles spawned and not yet removed
Tracked == SeqSet(cm.cars)

CellAt(id) == <<car[id].gridRow, car[id].gridCol>>

\* The step is GameScene.update
IsSceneUpdate == frame.phase = "frame" /\ frame'.phase = "idle"

FullRow == {<<1, c>> : c \in 0..(minGridSize - 1)}

\* The grid updatePathfindingGrid would build from the roads on the board
CurrentGrid ==
    updateGrid(gm.roads,
               IF gm.levelData # NoLevel THEN gm.levelData.uneditableCells ELSE {},
               gm.rows, gm.columns)

\* A route for the vehicle exists on the roads on the board, from its spawn
\* position or from the cell it is at
RouteExists(id) ==
    \/ findPathWithEntrances(CurrentGrid, car[id].spawnPosition,
                             car[id].targetPosition, gm.rows, gm.columns) # NoPath
    \/ findPathWithEntrances(CurrentGrid, Pos(car[id].gridRow, car[id].gridCol, FALSE),
                             car[id].targetPosition, gm.rows, gm.columns) # NoPath

\* C1: no two distinct vehicles that are spawned and not yet removed have
\* the same committed grid position (gridRow, gridCol).
C1_NoCollision ==
    \A a, b \in Tracked : a # b => CellAt(a) # CellAt(b)

\* C2 (P1): every cell key of the occupancy index carsByPosition maps to a
\* set that holds at most one vehicle id.
C2_IndexHoldsOneId ==
    \A key \in DOMAIN cm.carsByPosition : Cardinality(cm.carsByPosition[key]) <= 1

\* C2 witness: a run in which one vehicle has completed moves away from its
\* entrance and a second vehicle has been spawned and indexed.
C2_Witness ==
    /\ Cardinality(DOMAIN cm.carsByPosition) = 2
    /\ \E id \in Tracked : car[id].pathIndex >= 2 /\ CellAt(id) # CellOf(car[id].spawnPosition)

\* C3: when GameScene.update reaches a Moving vehicle that is about to take
\* its next step and the next cell of its path is the committed position of
\* another vehicle, the move is not started and the vehicle is Waiting after
\* that tick.
C3_BlockedStepWaits ==
    [][\A id \in Tracked :
         ( /\ IsSceneUpdate
           /\ car[id].state = "moving" /\ car[id].hasPath
           /\ ~car[id].isMoving /\ ~car[id].needsNewPath
           /\ car[id].pathIndex < Len(car[id].path)
           /\ \E other \in Tracked \ {id} :
                 CellAt(other) = car[id].path[car[id].pathIndex + 1] )
         => (car'[id].state = "waiting" /\ ~car'[id].isMoving)]_vars

\* C4 (P5, liveness): a vehicle of a running simulation that waits without
\* a path while no route exists for it eventually fails, unless the run is
\* stopped or the vehicle removed first.
C4_NoPathEventuallyFails ==
    \A id \in Ids :
       (gs.isSimulating /\ id \in Tracked /\ car[id].state = "waiting"
          /\ ~car[id].hasPath /\ ~RouteExists(id))
       ~> ((\E f \in obs.failures : f.car = id) \/ id \notin Tracked
             \/ ~gs.isSimulating)

\* C5 (P5, safety): a vehicle fails only from Waiting, and only on a tick
\* at which the wait time it accumulated since its last completed move
\* exceeds maxWaitTime.
C5_FailsOnlyAfterMaxWait ==
    \A f \in obs.failures : f.from = "waiting" /\ f.waited > maxWaitTime

\* C5 witness: a vehicle of a running simulation failed on the last tick.
C5_Witness ==
    obs.failures # {} /\ cm.stats.totalFailed > 0

\* C6: when a vehicle of a running simulation fails, the level is lost on
\* that tick: levelLost is raised and the simulation is stopped.
C6_FailureLosesLevel ==
    [][(gs.isSimulating /\ obs'.failures # {})
         => ("levelLost" \in obs'.emitted /\ ~gs'.isSimulating)]_vars

\* C7 (Scenario A): in the level with the entrance beyond the left edge and
\* the exit beyond the right edge of the road row, with roads without
\* direction annotations across that whole row, every vehicle of a run
\* eventually reaches ReachedExit (unless the run is stopped first).
C7_ScenarioAReachesExit ==
    \A id \in Ids :
       (levelFile = LevelA /\ gs.isSimulating /\ DOMAIN gm.roads = FullRow
          /\ ArrowCount(gm.roads) = 0 /\ id \in Tracked /\ ~isTerminal(car[id]))
       ~> (id \in obs.reached \/ car[id].state = "reached_exit"
             \/ ~gs.isSimulating)

\* C8: on the tick at which a vehicle that waits without a path has waited
\* the re-query interval (and has not timed out), a path request is issued
\* for it, and if a route exists the vehicle is Moving after the tick.
C8_WaitingRequeries ==
    [][\A id \in Tracked :
         ( /\ IsSceneUpdate
           /\ car[id].state = "waiting" /\ ~car[id].hasPath /\ ~car[id].isBlocked
           /\ car[id].waitTime + frame.delta > requeryInterval
           /\ car[id].waitTime + frame.delta <= maxWaitTime )
         => ( /\ id \in obs'.requested
              /\ RouteExists(id) => car'[id].state = "moving" )]_vars

\* The step from cell u to cell v leaves u in a direction its road allows
StepAllowed(u, v) ==
    \/ u \notin DOMAIN gm.roads
    \/ gm.roads[u] = <<>>
    \/ calculateDirection(u, v) \in SeqSet(gm.roads[u])

\* C9 (P4): no path handed to a vehicle by a path request steps out of a
\* road that carries direction annotations towards a neighbour those
\* directions do not designate.
C9_PathsRespectDirections ==
    \A id \in obs.requested \cap Tracked :
       \A i \in 1..(Len(car[id].path) - 1) :
          StepAllowed(car[id].path[i], car[id].path[i + 1])

\* C10 (P3): a step that changes GameState.roads leaves the dirty flag set;
\* whenever the flag is clear the pathfinding grid is the one built from
\* the roads on the board; and after a step that handled a path request the
\* flag is clear, so the search ran on the rebuilt grid.
C10_NoStaleGrid ==
    /\ [][gs'.roads # gs.roads => gs'.dirty]_vars
    /\ [](~gs.dirty => pf = CurrentGrid)
    /\ [](obs.requested # {} => ~gs.dirty)

\* C10 witness: a path request was handled after roads had been placed and
\* the vehicle got a path over them.
C10_Witness ==
    /\ DOMAIN gs.roads # {}
    /\ ~gs.dirty
    /\ \E id \in obs.requested \cap Tracked : car[id].hasPath

\* The evaluator run has enough terminated vehicles and a success rate at
\* or above the threshold
WinCounts(e) ==
    /\ e.reached + e.failed >= e.minimum
    /\ e.reached * 100 >= successThreshold * (e.reached + e.failed)

\* C11: whenever an evaluator runs with reached + failed at or above its
\* minimum sample size and reached / (reached + failed) at or above
\* successThreshold, its result is WON and levelWon is emitted.
C11_WinReported ==
    \A e \in obs.evaluated :
       WinCounts(e) => e.verdict = "won" /\ "levelWon" \in obs.emitted

\* C11, its case: an evaluator ran on reached = 8, failed = 2 and reported
\* WON.
C11_Witness ==
    \E e \in obs.evaluated :
       e.reached = 8 /\ e.failed = 2 /\ e.verdict = "won"
       /\ "levelWon" \in obs.emitted

\* C12: whenever an evaluator runs with reached + failed at or above its
\* minimum sample size, the success rate below successThreshold and
\* failed > reached, its result is LOST and levelLost is emitted; WON and
\* LOST are never both reported by one evaluation.
C12_LossReported ==
    /\ \A e \in obs.evaluated :
          (/\ e.reached + e.failed >= e.minimum
           /\ ~WinCounts(e)
           /\ e.failed > e.reached)
          => e.verdict = "lost" /\ "levelLost" \in obs.emitted
    /\ ~("levelWon" \in obs.emitted /\ "levelLost" \in obs.emitted)

\* C12, its case: an evaluator ran on failed = 6, reached = 5 and reported
\* LOST.
C12_Witness ==
    \E e \in obs.evaluated :
       e.reached = 5 /\ e.failed = 6 /\ e.verdict = "lost"
       /\ "levelLost" \in obs.emitted

\* C13: an evaluator reports WON or LOST only when the number of vehicles
\* that terminated (reached the exit or failed) in the run is at least its
\* minimum sample size.
C13_NoEarlyVerdict ==
    \A e \in obs.evaluated :
       e.verdict # "none" => gs.terminatedInRun >= e.minimum

\* C14: a step that emits levelWon or levelLost emits one such event and
\* leaves the simulation stopped: isSimulating and isSpawning are false, no
\* spawn timer of the run is pending, and the vehicle sets and the occupancy
\* index are empty.
C14_VerdictStopsRun ==
    obs.verdicts > 0 =>
        /\ obs.verdicts = 1
        /\ ~gs.isSimulating
        /\ ~cm.isSpawning
        /\ \A i \in DOMAIN te : ~te[i].tracked
        /\ cm.cars = <<>>
        /\ gs.cars = <<>>
        /\ DOMAIN cm.carsByPosition = {}

\* C14, its case: GameScene.checkEndConditions decided a verdict in a step
\* in which the removal check of GameState ran as well.
C14_Witness ==
    /\ obs.verdicts = 1
    /\ \E e \in obs.evaluated : e.by = "GameScene" /\ e.verdict # "none"
    /\ \E e \in obs.evaluated : e.by = "GameState"

\* C15: while a run is in progress or no road is placed, startSimulation
\* (GameState's, and GameScene's in front of it) changes nothing: GameState,
\* CarManager with its statistics, vehicle set and occupancy index, the
\* vehicles and the timers stay as they are and no event is emitted.
C15_InvalidStartRejected ==
    (gs.isSimulating \/ DOMAIN gs.roads = {}) =>
        \A jitters \in [DOMAIN levelFile.cars -> Jitters] :
           /\ gsStartSimulation(Fresh, jitters) = Fresh
           /\ sceneStartSimulation(Fresh, jitters) = Fresh

\* C15, its case: a run in progress with a vehicle on the board and a spawn
\* timer pending, where a start would have statistics, vehicles and timers
\* to disturb.
C15_Witness ==
    /\ gs.isSimulating
    /\ cm.cars # <<>>
    /\ \E i \in DOMAIN te : te[i].kind = "spawn"
    /\ gs.stats.carsSpawned > 0

\* Every count of CarManager.stats is zero
CmStatsZero ==
    /\ cm.stats.totalSpawned = 0
    /\ cm.stats.totalReachedExit = 0
    /\ cm.stats.totalFailed = 0
    /\ \A k \in DOMAIN cm.stats.spawnedByType : cm.stats.spawnedByType[k] = 0
    /\ \A k \in DOMAIN cm.stats.succeededByType : cm.stats.succeededByType[k] = 0
    /\ \A k \in DOMAIN cm.stats.failedByType : cm.stats.failedByType[k] = 0

\* C16: right after a successful start (the step emitted simulationStarted)
\* the spawned, reached-exit and failed counts of GameState.stats and of
\* CarManager.stats, overall and per car type, are all zero.
C16_StartResetsStats ==
    "simulationStarted" \in obs.emitted => gs.stats = ZeroStats /\ CmStatsZero

\* C17: after a step in which stopSimulation stopped a running simulation
\* (simulationStopped was emitted), isSimulating is false, the game state is
\* BUILDING, isSpawning is false, and CarManager.cars, GameState.cars and
\* carsByPosition are empty.
C17_StopClearsRun ==
    "simulationStopped" \in obs.emitted =>
        /\ ~gs.isSimulating
        /\ gs.gameState = "building"
        /\ ~cm.isSpawning
        /\ cm.cars = <<>>
        /\ gs.cars = <<>>
        /\ DOMAIN cm.carsByPosition = {}

\* C17, its case: the player stopped a run (no verdict) in which spawned
\* vehicles were still on the board.
C17_Witness ==
    /\ "simulationStopped" \in obs.emitted
    /\ obs.verdicts = 0
    /\ gs.stats.carsSpawned > gs.stats.carsReachedExit + gs.stats.carsFailed

\* The road layout of the world is the one on the board
SameRoads(w) == w.gs.roads = gs.roads /\ w.gm.roads = gm.roads

\* C18: while isSimulating is true, a place-road or remove-road request
\* (InputManager.handleRoadPlacement / handleRoadDeletion for any cell)
\* changes neither GameState.roads nor the road set of GridManager.
C18_NoRoadEditWhileRunning ==
    gs.isSimulating =>
        \A cell \in ClickCells :
           /\ SameRoads(handleRoadPlacement(Fresh, cell[1], cell[2]))
           /\ SameRoads(handleRoadDeletion(Fresh, cell[1], cell[2]))

\* State, grid position and path cursor of the two vehicle records agree
SameVehicle(c, d) ==
    /\ c.state = d.state
    /\ c.gridRow = d.gridRow
    /\ c.gridCol = d.gridCol
    /\ c.pathIndex = d.pathIndex

\* C19: a vehicle that is spawned, not yet removed and in state ReachedExit
\* or Failed keeps its state, grid position and path cursor in every step
\* of the program, under Car.update with any delta, under setPath with an
\* empty or a non-empty path, and under stop().
C19_TerminalIsFinal ==
    [][\A id \in Tracked :
          isTerminal(car[id]) =>
             /\ id \in SeqSet(cm'.cars) => SameVehicle(car'[id], car[id])
             /\ \A delta \in Deltas :
                   SameVehicle(carUpdate(Fresh, id, delta).car[id], car[id])
             /\ \A path \in {NoPath, <<CellAt(id)>>} :
                   SameVehicle(setPath(car[id], path), car[id])
             /\ SameVehicle(carStop(car[id]), car[id])]_vars

\* The vehicle is at the last cell of its path, all steps of it done
AtPathEnd(c) ==
    /\ c.hasPath
    /\ Len(c.path) > 0
    /\ c.pathIndex = Len(c.path)
    /\ <<c.gridRow, c.gridCol>> = c.path[Len(c.path)]

\* The vehicle is at its exit: at the exit position itself or, for an exit
\* beyond a grid edge, at the cell of the grid next to it
AtExit(c) ==
    \/ c.gridRow = c.targetPosition.row /\ c.gridCol = c.targetPosition.col
    \/ /\ c.targetPosition.isEntrance
       /\ isValidGridPosition(c.gridRow, c.gridCol, gm.rows, gm.columns)
       /\ Abs(c.gridRow - c.targetPosition.row)
            + Abs(c.gridCol - c.targetPosition.col) = 1

\* C20: a vehicle in state ReachedExit is at the final cell of its path,
\* and that cell is its exit (for an exit beyond a grid edge, the exit
\* position or the cell of the grid next to it).
C20_ReachedOnlyAtExit ==
    \A id \in Tracked :
       car[id].state = "reached_exit" => AtPathEnd(car[id]) /\ AtExit(car[id])

\* Spawn timers pending for the car type
SpawnTimers(events, carTypeIndex) ==
    {i \in DOMAIN events : events[i].kind = "spawn" /\ events[i].type = carTypeIndex}

\* C21: a spawn attempt whose chosen entrance cell is occupied in the
\* occupancy index is skipped, not cancelled: the step creates no vehicle and
\* changes no statistic and no occupancy entry, emits nothing, and afterwards a
\* spawn attempt for that car type is scheduled, due after the spawn interval
\* plus its jitter of less than a second.
C21_BlockedSpawnSkipped ==
    [][\A a \in obs'.skipped :
          /\ car' = car
          /\ cm' = cm
          /\ gs' = gs
          /\ obs'.emitted = {}
          /\ \E i \in SpawnTimers(te', a.type) :
                /\ te'[i].tracked
                /\ te'[i].remaining >= carSpawnInterval
                /\ te'[i].remaining < carSpawnInterval + 1000]_vars

\* A spawn attempt was skipped at an entrance another vehicle occupies
C21_Witness ==
    \E a \in obs.skipped :
        /\ \E id \in Tracked : CellAt(id) = a.at
        /\ cm.isSpawning

\* Vehicles of the car type spawned, as CarManager counts them
SpawnedCount(carTypeIndex) == MapGetOr(cm.stats.spawnedByType, carTypeIndex, 0)

\* C22: for every car type the number of vehicles spawned for it never
\* exceeds maxCarsPerType, and no spawn timer is pending for a type that has
\* reached the maximum.
C22_SpawnCap ==
    cm.levelData # NoLevel =>
        \A i \in DOMAIN cm.levelData.cars :
            /\ SpawnedCount(i) <= maxCarsPerType
            /\ SpawnedCount(i) >= maxCarsPerType => SpawnTimers(te, i) = {}

\* The last vehicle a car type may have was spawned in this step
C22_Witness ==
    /\ cm.levelData # NoLevel
    /\ "carSpawned" \in obs.emitted
    /\ \E i \in DOMAIN cm.levelData.cars : SpawnedCount(i) = maxCarsPerType

Exterior(cell) == ~isValidPosition(gm, cell[1], cell[2])

\* The cell of the grid next to a cell one step outside it
InteriorNeighbour(cell) ==
    <<Max(0, Min(gm.rows - 1, cell[1])), Max(0, Min(gm.columns - 1, cell[2]))>>

\* C24: a query whose start or goal is a cell one step outside the grid
\* returns a path only if the interior neighbour of that cell is a road, and
\* the path enters or leaves the grid through that neighbour.
C24_ExteriorThroughNeighbour ==
    \A q \in obs.queries :
        q.path # NoPath =>
            /\ Exterior(q.start) =>
                  /\ gmHasRoad(gm, InteriorNeighbour(q.start)[1],
                               InteriorNeighbour(q.start)[2])
                  /\ q.path[1] = InteriorNeighbour(q.start)
            /\ Exterior(q.goal) =>
                  /\ gmHasRoad(gm, InteriorNeighbour(q.goal)[1],
                               InteriorNeighbour(q.goal)[2])
                  /\ q.path[Len(q.path)] = InteriorNeighbour(q.goal)

\* Cells a vehicle may be on: in the grid, holding a road, not permanently
\* blocked
RoadCells ==
    {k \in DOMAIN gm.roads :
        /\ isValidPosition(gm, k[1], k[2])
        /\ k \notin gm.levelData.uneditableCells}

Adjacent(u, v) == Abs(u[1] - v[1]) + Abs(u[2] - v[2]) = 1

RECURSIVE Within(_, _)
\* Road cells that sequences of at most steps moves over road cells reach
\* from the cells of from
Within(from, steps) ==
    IF steps = 0 THEN from
    ELSE Within(from \cup {v \in RoadCells : \E u \in from : Adjacent(u, v)},
                steps - 1)

\* A sequence of road cells from start to goal exists
Connected(start, goal) ==
    /\ start \in RoadCells
    /\ goal \in Within({start}, Cardinality(RoadCells))

\* C25: every path a query returns is a sequence of in-bounds road cells,
\* none permanently blocked, each next to the one before, from the start to
\* the goal inclusive, and no shorter such sequence exists; when no such
\* sequence exists the query returns no path.
C25_ShortestRoadPath ==
    \A q \in obs.queries :
        /\ q.path # NoPath =>
              /\ SeqSet(q.path) \subseteq RoadCells
              /\ q.path[1] = q.start
              /\ q.path[Len(q.path)] = q.goal
              /\ \A i \in 1..(Len(q.path) - 1) : Adjacent(q.path[i], q.path[i + 1])
              /\ Len(q.path) = 1 \/ q.goal \notin Within({q.start}, Len(q.path) - 2)
        /\ ~Connected(q.start, q.goal) => q.path = NoPath

\* A query returned a path that turns a corner, on a board with a road that
\* is not on the path
C25_Witness ==
    \E q \in obs.queries :
        /\ Len(q.path) >= 3
        /\ q.start[1] # q.goal[1]
        /\ q.start[2] # q.goal[2]
        /\ RoadCells \ SeqSet(q.path) # {}

\* Positions a path is asked for, sampled: a cell of the editable row and
\* the cell beyond the end of it, at either end, with and without the
\* entrance flag
QueryStarts == {Pos(1, c, e) : c \in {-1, 0}, e \in BOOLEAN}

QueryGoals == {Pos(1, c, e) : c \in {minGridSize - 1, minGridSize}, e \in BOOLEAN}

\* The vehicle got no path and waits
WaitsWithoutPath(w, id) ==
    /\ \A q \in w.obs.queries : q.path = NoPath
    /\ w.car[id].state = "waiting"

\* C26: with zero roads on the board every path query returns no path and
\* the requesting vehicle goes to Waiting: so for the queries of the step
\* just taken, and for every query a vehicle could make next.
C26_NoRoadsNoPath ==
    DOMAIN gm.roads = {} =>
        /\ \A q \in obs.queries : q.path = NoPath
        /\ \A id \in obs.requested \cap Tracked : car[id].state = "waiting"
        /\ \A id \in Tracked : \A start \in QueryStarts, end \in QueryGoals :
              WaitsWithoutPath(handlePathRequest(Fresh, id, start, end), id)

\* A vehicle asked for a path while no road was on the board
C26_Witness ==
    /\ DOMAIN gm.roads = {}
    /\ obs.queries # {}
    /\ obs.requested \cap Tracked # {}

\* C27: the occupancy index tracks positions exactly: for every cell, the
\* ids carsByPosition holds for it are the vehicles spawned and not yet
\* removed whose position (gridRow, gridCol) is that cell.
C27_IndexTracksPositions ==
    \A cell \in DOMAIN cm.carsByPosition \cup {CellAt(id) : id \in Tracked} :
        MapGetOr(cm.carsByPosition, cell, {}) = {id \in Tracked : CellAt(id) = cell}

\* C28: a newly created vehicle stays in Spawning, starting no move, until
\* the spawn delay has elapsed since its creation; here at the end of the
\* step that creates it, when no time has elapsed.
C28_NewVehicleSpawning ==
    [][\A id \in SeqSet(cm'.cars) \ SeqSet(cm.cars) :
          /\ car'[id].state = "spawning"
          /\ ~car'[id].tween.active]_vars

\* The state changes of the vehicle life cycle
AllowedChanges ==
    {<<"spawning", "moving">>, <<"moving", "waiting">>, <<"waiting", "moving">>,
     <<"moving", "reached_exit">>, <<"waiting", "failed">>}

\* The state the vehicle is in before the step; a vehicle the step creates
\* starts in the state its constructor sets
StateBefore(id) == IF id \in Tracked THEN car[id].state ELSE "spawning"

\* C29: the only state changes a vehicle makes are Spawning to Moving, Moving
\* to Waiting, Waiting to Moving, Moving to ReachedExit and Waiting to Failed.
C29_OnlyLifeCycleChanges ==
    [][\A id \in SeqSet(cm'.cars) :
          car'[id].state # StateBefore(id) =>
              <<StateBefore(id), car'[id].state>> \in AllowedChanges]_vars

\* Removal timers of the vehicle that still have time to run: less than the
\* removal delay has passed since the vehicle reached its exit or failed
GraceLeft(id) ==
    {i \in DOMAIN te : te[i].kind = "remove" /\ te[i].car = id /\ te[i].remaining > 0}

\* C30: while a simulation runs, a vehicle that reached its exit or failed
\* is not removed before its removal delay (1000 ms, 3000 ms) has passed,
\* whichever part of the program removes it.
C30_TerminalKeptForGrace ==
    [][(gs.isSimulating /\ gs'.isSimulating) =>
          \A id \in Tracked \ SeqSet(cm'.cars) :
              isTerminal(car[id]) => GraceLeft(id) = {}]_vars

\* C31: nothing from a stopped run outlives the stop: a stop leaves no
\* movement tween running, and the callback of a time event that was pending
\* when its run was stopped creates no vehicle, changes no statistic, no
\* occupancy entry and no vehicle, and emits nothing, also when it runs
\* during a later run.
C31_NothingOutlivesStop ==
    [][/\ (gs.isSimulating /\ "simulationStopped" \in obs'.emitted) =>
              \A id \in Ids : ~car'[id].tween.active
       /\ \A e \in obs'.fired :
              e.stale => (cm' = cm /\ gs' = gs /\ car' = car /\ obs'.emitted = {})]_vars

\* The removal timer of a vehicle of a stopped run fired during a later run
C31_Witness ==
    /\ gs.isSimulating
    /\ cm.isSpawning
    /\ \E e \in obs.fired : e.stale /\ e.kind = "remove"

\* Roads GameState holds
RoadCount(g) == Cardinality(DOMAIN g.roads)

\* C32: budget conservation: once a level is initialised, the budget is not
\* negative and the budget plus roadCost for every road in GameState.roads
\* is the level's initial budget; and a road is placed only when the budget
\* is at least roadCost.
C32_BudgetConserved ==
    /\ [](gs.level # NoLevel =>
             /\ gs.budget >= 0
             /\ gs.budget + roadCost * RoadCount(gs) = gs.level.budget)
    /\ [][RoadCount(gs') > RoadCount(gs) => gs.budget >= roadCost]_vars

\* The budget is spent: a road for each roadCost of the level's budget
C32_Witness ==
    /\ gs.level # NoLevel
    /\ gs.budget = 0
    /\ RoadCount(gs) * roadCost = gs.level.budget
    /\ RoadCount(gs) > 0

\* C33: a rejected road edit changes nothing: placeRoad while a simulation
\* runs, with a budget below roadCost or on a cell that has a road,
\* removeRoad while a simulation runs or on a cell without a road, and
\* updateRoadDirections on a cell without a road leave GameState (roads,
\* budget and dirty flag) as it was and emit no event.
C33_RejectedEditChangesNothing ==
    \A cell \in ClickCells :
        /\ (gs.isSimulating \/ gs.budget < roadCost \/ cell \in DOMAIN gs.roads) =>
              /\ gsPlaceRoad(gs, cell[1], cell[2]) = gs
              /\ gsRoadEvents(gs, "placeRoad", cell[1], cell[2]) = {}
        /\ (gs.isSimulating \/ cell \notin DOMAIN gs.roads) =>
              /\ gsRemoveRoad(gs, cell[1], cell[2]) = gs
              /\ gsRoadEvents(gs, "removeRoad", cell[1], cell[2]) = {}
        /\ cell \notin DOMAIN gs.roads =>
              /\ \A directions \in {<<>>, <<"left">>} :
                    gsUpdateRoadDirections(gs, cell[1], cell[2], directions) = gs
              /\ gsRoadEvents(gs, "updateRoadDirections", cell[1], cell[2]) = {}

\* The board shows a road GameState does not hold and the input is on: a
\* click with the DELETE tool or an arrow drawn on that road is an edit
\* GameState rejects
C33_Witness ==
    /\ input
    /\ DOMAIN gm.roads \ DOMAIN gs.roads # {}

\* C34: vehicles are spawned only while a run is in progress: in every
\* reachable state CarManager.isSpawning implies GameState.isSimulating,
\* also after GameState.reset() or a level reload during a simulation.
C34_SpawningOnlyWhileSimulating ==
    cm.isSpawning => gs.isSimulating

\* C35: per-type statistics are consistent: for every car type index t,
\* succeededByType[t] + failedByType[t] <= spawnedByType[t] in every
\* reachable state, also in a level whose car types share a colour.
C35_PerTypeStatsConsistent ==
    \A t \in DOMAIN cm.stats.spawnedByType :
        MapGetOr(cm.stats.succeededByType, t, 0) + MapGetOr(cm.stats.failedByType, t, 0)
            <= cm.stats.spawnedByType[t]

\* C36: a verdict is reflected in the game state: once a step has issued
\* levelWon (levelLost) and stopped the simulation, GameState.gameState is
\* "won" ("lost").
C36_VerdictKept ==
    [][/\ ("levelWon" \in obs'.emitted /\ ~gs'.isSimulating) => gs'.gameState = "won"
       /\ ("levelLost" \in obs'.emitted /\ ~gs'.isSimulating) => gs'.gameState = "lost"]_vars

\* C37: a spawn attempt is skipped only if a vehicle that is spawned and not
\* yet removed is located at the chosen entrance cell when the attempt is
\* made.
C37_SkippedOnlyWhenOccupied ==
    [][\A s \in obs'.skipped : \E id \in Tracked : CellAt(id) = s.at]_vars

\* C38: the two road stores agree: GridManager.roads and GameState.roads
\* hold the same set of cells after every place or delete operation of the
\* InputManager, every reset and every level load.
C38_RoadStoresAgree ==
    DOMAIN gm.roads = DOMAIN gs.roads

\* C39: a path query issued before any pathfinding grid has been established
\* fails loudly: an error leaves PathFinder.findPath, instead of the no-path
\* result being returned.
C39_QueryWithoutGridRaises ==
    ~pf.hasGrid =>
        \A start, end \in QueryCells :
            findPathOutcome(pf, start[1], start[2], end[1], end[2]) = "raised"

====
